---- MODULE Spec2Model ----
(***************************************************************************)
(* Query resolution pipeline of eidon_view: the query parser               *)
(* (client/src/lib/filters.ts), the filter state manager                   *)
(* (client/src/hooks/useSearch.ts), the Home page that issues the          *)
(* requests (client/src/pages/Home.tsx), and the server's search,          *)
(* timeline, sample-data and capture routes with the storage behind them.  *)
(*                                                                         *)
(* JavaScript strings are modelled as sequences of one-character strings,  *)
(* so that the regular expressions of the source can be modelled by what   *)
(* they match, character by character.                                     *)
(***************************************************************************)
EXTENDS Integers, Sequences, FiniteSets, TLC

VARIABLES
    searchQuery,    \* useSearch: useState("") - the canonical query string
    page,           \* useSearch: useState(1)
    limit,          \* useSearch: useState(12)
    searchFilters,  \* useSearch: useMemo over [searchQuery, page, limit]
    activeFilters,  \* useSearch: useMemo over [searchFilters]
    lastOp,         \* history: the operation that produced this state
    raw,            \* parser run: the argument of parseSearchQuery
    parsed,         \* parser run: its return value
    pc,             \* parser run: "ready" before the call, "parsed" after
    routes,         \* server: which registerRoutes it was built with
    store,          \* server: the rows of screenshot_entries, in id order
    request,        \* server: the GET request in flight, or NoRequest
    response,       \* server: the response to it, or NoResponse
    planned,        \* history: the arguments the storage was called with
    captureActive,  \* server: DatabaseStorage.captureActive
    calls,          \* capture requests: kind, position and returned value
    order,          \* history: the capture requests in the order handled
    tz,             \* server: minutes its local time is ahead of UTC
    seeding,        \* server: rows POST /api/sample-data has yet to insert
    walk,           \* paging client: the pages fetched so far, oldest first
    homeDate,       \* Home: currentDate, useState(format(new Date(), ..))
    homePage,       \* Home: useState(1), the page of Home itself
    homeSearch,     \* Home: the state of its own useSearch() instance
    data,           \* Home: the response useQuery holds for the query key
    homeOp          \* history: the last Home operation and the key before

vars == <<searchQuery, page, limit, searchFilters, activeFilters, lastOp,
          raw, parsed, pc,
          routes, store, request, response, planned,
          captureActive, calls, order, tz, seeding, walk,
          homeDate, homePage, homeSearch, data, homeOp>>

hookVars == <<searchQuery, page, limit, searchFilters, activeFilters, lastOp>>
parseVars == <<raw, parsed, pc>>
plannerVars == <<store, request, response, planned>>
captureVars == <<captureActive, calls, order>>
serverVars == <<routes, plannerVars, captureVars, tz, seeding, walk>>
homeVars == <<homeDate, homePage, homeSearch, data, homeOp>>

-----------------------------------------------------------------------------
(* Bounds of the model *)

MaxPage == 2        \* setPage draws from 1..MaxPage
MaxQueryLen == 14   \* addFilter is not applied when its result would be longer
MaxTokens == 3      \* parser inputs are built from at most this many pieces
StoreSize == 13     \* rows of the large store
MaxLoads == 2       \* Load More is pressed at most this many times in a row
MaxRequests == 3    \* capture requests a behaviour may send

(* Program constants *)

DefaultLimit == 12

-----------------------------------------------------------------------------
(* Characters and strings *)

\* JavaScript's undefined, for an optional field that was never assigned.
\* It differs from every string, the empty string included.
Undefined == <<"undefined", "undefined">>

FilterKeys == <<"date", "time", "title", "url">>

KeySet == {FilterKeys[i] : i \in 1..Len(FilterKeys)}

\* The characters of a key, as they appear in a template literal `${key}`.
KeyChars(key) ==
    CASE key = "date"  -> <<"d", "a", "t", "e">>
      [] key = "time"  -> <<"t", "i", "m", "e">>
      [] key = "title" -> <<"t", "i", "t", "l", "e">>
      [] key = "url"   -> <<"u", "r", "l">>

\* \s of a JavaScript regular expression, and the whitespace of trim().
IsSpace(c) == c \in {" ", "\t"}

\* Case folding of the /i flag, on the letters the keys are made of.
ToLower(c) ==
    CASE c = "D" -> "d" [] c = "A" -> "a" [] c = "T" -> "t" [] c = "E" -> "e"
      [] c = "I" -> "i" [] c = "M" -> "m" [] c = "L" -> "l" [] c = "U" -> "u"
      [] c = "R" -> "r"
      [] OTHER -> c

Min(S) == CHOOSE x \in S : \A y \in S : x <= y

\* String.prototype.trim()
RECURSIVE TrimStart(_)
TrimStart(s) ==
    IF s # <<>> /\ IsSpace(Head(s)) THEN TrimStart(Tail(s)) ELSE s

RECURSIVE TrimEnd(_)
TrimEnd(s) ==
    IF s # <<>> /\ IsSpace(s[Len(s)])
    THEN TrimEnd(SubSeq(s, 1, Len(s) - 1))
    ELSE s

Trim(s) == TrimEnd(TrimStart(s))

\* Does s hold the literal lit at index i? ci is the /i flag.
LitAt(s, i, lit, ci) ==
    /\ i + Len(lit) - 1 <= Len(s)
    /\ \A k \in 1..Len(lit) :
          IF ci THEN ToLower(s[i + k - 1]) = ToLower(lit[k])
                ELSE s[i + k - 1] = lit[k]

\* [^\s]+ tried at index j, greedy: the index of the last character it
\* takes, j - 1 when it takes none (no match).
RECURSIVE NonSpaceEnd(_, _)
NonSpaceEnd(s, j) ==
    IF j > Len(s) \/ IsSpace(s[j]) THEN j - 1 ELSE NonSpaceEnd(s, j + 1)

\* q[^q]+q tried at index j for a quote character q: the index of the
\* closing quote, 0 when there is no match.
QuotedEnd(s, j, q) ==
    LET ends == {e \in (j + 2)..Len(s) :
                    /\ s[e] = q
                    /\ \A m \in (j + 1)..(e - 1) : s[m] # q}
    IN  IF j <= Len(s) /\ s[j] = q /\ ends # {} THEN Min(ends) ELSE 0

\* The capture group of a filter pattern tried at index j: ([^\s]+) for
\* date and time, ([^\s]+|"[^"]+"|'[^']+') for title and url.  The
\* alternatives are tried in the order written and nothing follows the
\* group, so the first alternative that matches decides.  0 is no match.
GroupEnd(s, j, quoted) ==
    IF NonSpaceEnd(s, j) >= j THEN NonSpaceEnd(s, j)
    ELSE IF quoted /\ QuotedEnd(s, j, "\"") > 0 THEN QuotedEnd(s, j, "\"")
    ELSE IF quoted /\ QuotedEnd(s, j, "'") > 0 THEN QuotedEnd(s, j, "'")
    ELSE 0

Max(S) == CHOOSE x \in S : \A y \in S : x >= y

NoMatch == [found |-> FALSE, whole |-> <<>>, group |-> <<>>]

\* FilterMatch, had it returned the rightmost match instead of the leftmost.
FilterMatchLast(s, key, quoted) ==
    LET prefix == KeyChars(key) \o <<":">>
        starts == {i \in 1..Len(s) :
                      /\ LitAt(s, i, prefix, TRUE)
                      /\ GroupEnd(s, i + Len(prefix), quoted) > 0}
    IN  IF starts = {} THEN NoMatch
        ELSE LET i == Max(starts)
                 e == GroupEnd(s, i + Len(prefix), quoted)
             IN  [found |-> TRUE,
                  whole |-> SubSeq(s, i, e),
                  group |-> SubSeq(s, i + Len(prefix), e)]

\* FilterMatch, had its pattern lacked the /i flag.
FilterMatchCaseSensitive(s, key, quoted) ==
    LET prefix == KeyChars(key) \o <<":">>
        starts == {i \in 1..Len(s) :
                      /\ LitAt(s, i, prefix, FALSE)
                      /\ GroupEnd(s, i + Len(prefix), quoted) > 0}
    IN  IF starts = {} THEN NoMatch
        ELSE LET i == Min(starts)
                 e == GroupEnd(s, i + Len(prefix), quoted)
             IN  [found |-> TRUE,
                  whole |-> SubSeq(s, i, e),
                  group |-> SubSeq(s, i + Len(prefix), e)]

\* query.match(/key:(...)/i): the leftmost match, as [0] (whole) and [1]
\* (group), or null.
FilterMatch(s, key, quoted) ==
    LET prefix == KeyChars(key) \o <<":">>
        starts == {i \in 1..Len(s) :
                      /\ LitAt(s, i, prefix, TRUE)
                      /\ GroupEnd(s, i + Len(prefix), quoted) > 0}
    IN  IF starts = {} THEN NoMatch
        ELSE LET i == Min(starts)
                 e == GroupEnd(s, i + Len(prefix), quoted)
             IN  [found |-> TRUE,
                  whole |-> SubSeq(s, i, e),
                  group |-> SubSeq(s, i + Len(prefix), e)]

\* query.replace(sub, ''): a string pattern replaces its first occurrence.
ReplaceFirst(s, sub) ==
    LET at == {i \in 1..Len(s) : LitAt(s, i, sub, FALSE)}
    IN  IF sub = <<>> \/ at = {} THEN s
        ELSE LET i == Min(at)
             IN  SubSeq(s, 1, i - 1) \o SubSeq(s, i + Len(sub), Len(s))

\* value.replace(/["']/g, '')
StripAllQuotes(v) == SelectSeq(v, LAMBDA c : c \notin {"\"", "'"})

\* value.replace(/^["'](.*)["']$/, '$1')
StripOuterQuotes(v) ==
    IF Len(v) >= 2 /\ v[1] \in {"\"", "'"} /\ v[Len(v)] \in {"\"", "'"}
    THEN SubSeq(v, 2, Len(v) - 1)
    ELSE v

-----------------------------------------------------------------------------
(* filters.ts *)

\* The four patterns of parseSearchQuery: date and time capture ([^\s]+),
\* title and url capture ([^\s]+|"[^"]+"|'[^']+').
Quoted(key) == key \in {"title", "url"}

\* One "Extract ..." block of parseSearchQuery.  st holds the local variable
\* query and the filter fields assigned so far.
ExtractFilter(st, key) ==
    LET m == FilterMatch(st.query, key, Quoted(key))
    IN  IF ~m.found THEN st
        ELSE [st EXCEPT
                ![key]  = IF Quoted(key) THEN StripOuterQuotes(m.group)
                                          ELSE StripAllQuotes(m.group),
                !.query = ReplaceFirst(st.query, m.whole)]

\* parseSearchQuery, had it returned the residual query without trim().
parseSearchQueryNoTrim(query) ==
    LET st0 == [query |-> query, date |-> Undefined, time |-> Undefined,
                title |-> Undefined, url |-> Undefined]
    IN  ExtractFilter(
          ExtractFilter(
            ExtractFilter(
              ExtractFilter(st0, "date"), "time"), "title"), "url")

parseSearchQuery(query) ==
    LET st0 == [query |-> query, date |-> Undefined, time |-> Undefined,
                title |-> Undefined, url |-> Undefined]
        st4 == ExtractFilter(
                 ExtractFilter(
                   ExtractFilter(
                     ExtractFilter(st0, "date"), "time"), "title"), "url")
    IN  [st4 EXCEPT !.query = Trim(st4.query)]

\* if (filters.key): a string is truthy when it is defined and not empty.
Truthy(v) == v # Undefined /\ v # <<>>

\* filtersToActiveFilters, had it tested the fields against undefined
\* instead of for truthiness.
filtersToActiveFiltersDefined(filters) ==
    LET entry(key) == [key     |-> key,
                       value   |-> filters[key],
                       display |-> KeyChars(key) \o <<":", " ">> \o filters[key]]
        present == SelectSeq(FilterKeys, LAMBDA key : filters[key] # Undefined)
    IN  [i \in 1..Len(present) |-> entry(present[i])]

filtersToActiveFilters(filters) ==
    LET entry(key) == [key     |-> key,
                       value   |-> filters[key],
                       display |-> KeyChars(key) \o <<":", " ">> \o filters[key]]
        present == SelectSeq(FilterKeys, LAMBDA key : Truthy(filters[key]))
    IN  [i \in 1..Len(present) |-> entry(present[i])]

-----------------------------------------------------------------------------
(* useSearch.ts: the regular expressions of addFilter and removeFilter *)

\* new RegExp(`${key}:[^\\s]+`, 'g') in prev.replace(regex, ''): every
\* match, left to right, without the /i flag.
RECURSIVE RemoveKeyTokens(_, _, _)
RemoveKeyTokens(s, i, key) ==
    LET prefix == KeyChars(key) \o <<":">>
        e      == NonSpaceEnd(s, i + Len(prefix))
    IN  IF i > Len(s) THEN <<>>
        ELSE IF LitAt(s, i, prefix, FALSE) /\ e >= i + Len(prefix)
        THEN RemoveKeyTokens(s, e + 1, key)
        ELSE <<s[i]>> \o RemoveKeyTokens(s, i + 1, key)

\* The characters of the class [-\/\\^$*+?.()|[\]{}].
EscapedChars ==
    {"-", "/", "\\", "^", "$", "*", "+", "?", ".", "(", ")", "|", "[", "]",
     "{", "}"}

\* escapeRegExp, had the value gone into the pattern as it is.
escapeRegExpNone(v) == v

\* filter.value.replace(/[-\/\\^$*+?.()|[\]{}]/g, '\\$&')
RECURSIVE escapeRegExp(_)
escapeRegExp(v) ==
    IF v = <<>> THEN <<>>
    ELSE (IF Head(v) \in EscapedChars THEN <<"\\", Head(v)>> ELSE <<Head(v)>>)
         \o escapeRegExp(Tail(v))

\* The atoms of a regular expression source: \c is the character c, an
\* unescaped . is any character, any other character is itself.
RECURSIVE Atoms(_)
Atoms(src) ==
    IF src = <<>> THEN <<>>
    ELSE IF Head(src) = "\\" /\ Len(src) >= 2
    THEN <<[any |-> FALSE, c |-> src[2]]>> \o Atoms(Tail(Tail(src)))
    ELSE <<[any |-> Head(src) = ".", c |-> Head(src)]>> \o Atoms(Tail(src))

AtomsAt(s, i, atoms) ==
    /\ i + Len(atoms) - 1 <= Len(s)
    /\ \A k \in 1..Len(atoms) : atoms[k].any \/ s[i + k - 1] = atoms[k].c

\* \s* tried at index j, greedy: the index of the last character it takes.
RECURSIVE SpaceEnd(_, _)
SpaceEnd(s, j) ==
    IF j <= Len(s) /\ IsSpace(s[j]) THEN SpaceEnd(s, j + 1) ELSE j - 1

\* prev.replace(new RegExp(`${key}:${escaped}\\s*`, 'g'), '')
RECURSIVE RemoveMatches(_, _, _)
RemoveMatches(s, i, atoms) ==
    IF i > Len(s) THEN <<>>
    ELSE IF AtomsAt(s, i, atoms)
    THEN RemoveMatches(s, SpaceEnd(s, i + Len(atoms)) + 1, atoms)
    ELSE <<s[i]>> \o RemoveMatches(s, i + 1, atoms)

\* The index of the ] that closes a character class opened before index j,
\* 0 when the class is never closed.
RECURSIVE ClassEnd(_, _)
ClassEnd(src, j) ==
    IF j > Len(src) THEN 0
    ELSE IF src[j] = "\\" THEN ClassEnd(src, j + 2)
    ELSE IF src[j] = "]" THEN j
    ELSE ClassEnd(src, j + 1)

\* new RegExp(src, 'g') returns (TRUE) or throws a SyntaxError (FALSE): a
\* backslash needs a character after it, a class and a group must be
\* closed, and a quantifier needs something to repeat.  depth counts the
\* open groups, canRepeat says whether a quantifier may come next.
RECURSIVE RegExpScan(_, _, _, _)
RegExpScan(src, i, depth, canRepeat) ==
    IF i > Len(src) THEN depth = 0
    ELSE IF src[i] = "\\"
    THEN i < Len(src) /\ RegExpScan(src, i + 2, depth, TRUE)
    ELSE IF src[i] = "["
    THEN ClassEnd(src, i + 1) > 0
         /\ RegExpScan(src, ClassEnd(src, i + 1) + 1, depth, TRUE)
    ELSE IF src[i] = "("
    THEN IF i + 1 < Len(src) /\ src[i + 1] = "?"
            /\ src[i + 2] \in {":", "=", "!"}
         THEN RegExpScan(src, i + 3, depth + 1, FALSE)
         ELSE RegExpScan(src, i + 1, depth + 1, FALSE)
    ELSE IF src[i] = ")"
    THEN depth > 0 /\ RegExpScan(src, i + 1, depth - 1, TRUE)
    ELSE IF src[i] \in {"*", "+", "?"}
    THEN canRepeat
         /\ IF i < Len(src) /\ src[i + 1] = "?"
            THEN RegExpScan(src, i + 2, depth, FALSE)
            ELSE RegExpScan(src, i + 1, depth, FALSE)
    ELSE IF src[i] \in {"|", "^", "$"}
    THEN RegExpScan(src, i + 1, depth, FALSE)
    ELSE RegExpScan(src, i + 1, depth, TRUE)

RegExpCompiles(src) == RegExpScan(src, 1, 0, FALSE)

\* `${key}:[^\\s]+`
addFilterSource(key) ==
    KeyChars(key) \o <<":", "[", "^", "\\", "s", "]", "+">>

\* `${filter.key}:${escaped}\\s*`
removeFilterSource(key, value) ==
    KeyChars(key) \o <<":">> \o escapeRegExp(value) \o <<"\\", "s", "*">>

\* The updater addFilter hands to setSearchQuery.
addFilterUpdater(prev, key, value) ==
    LET cleaned == Trim(RemoveKeyTokens(prev, 1, key))
    IN  Trim(cleaned \o <<" ">> \o KeyChars(key) \o <<":">> \o value)

\* The updater removeFilter hands to setSearchQuery.
removeFilterUpdater(prev, key, value) ==
    LET source == KeyChars(key) \o <<":">> \o escapeRegExp(value)
    IN  Trim(RemoveMatches(prev, 1, Atoms(source)))

\* const searchFilters = useMemo(() => {...}, [searchQuery, page, limit])
searchFiltersMemo(q, p, l) ==
    parseSearchQuery(q) @@ [page |-> p, limit |-> l]

\* const activeFilters = useMemo(() => {...}, [searchFilters])
activeFiltersMemo(filters) == filtersToActiveFilters(filters)

-----------------------------------------------------------------------------
(* Inputs *)

\* The token key:value as text.
Tok(key, v) == KeyChars(key) \o <<":">> \o v

Sp == <<" ">>

\* Texts typed into the search box (SearchBar hands them to setSearchQuery).
Texts ==
    { <<>>,
      <<"x">>,
      Sp \o <<"x">> \o Sp,
      <<"x">> \o Sp \o Tok("date", <<"a">>) \o Sp \o <<"y">>,
      Tok("date", <<"a">>) \o Sp \o Tok("date", <<"a", "b">>),
      Tok("date", <<"a">>) \o Sp \o Tok("date", <<"b">>),
      <<"D", "A", "T", "E", ":", "z">>,
      <<"U", "R", "L", ":", "z">>,
      <<"u", "p">> \o Tok("date", <<"a">>),
      Tok("url", <<"a", ".", "b">>) \o Sp \o Tok("url", <<"a", "x", "b">>),
      Tok("title", <<"\"", "a", "\"">>),
      Tok("time", <<"a">>) \o Sp \o Tok("url", <<"z">>),
      Tok("date", <<"\"">>) \o Sp \o Tok("time", <<"(">>) \o Sp
          \o Tok("url", <<"z">>) }

\* Values handed to addFilter: a bare word for every key and, for title, a
\* value of two words (the readme's `title:project alpha`).
AddValues(key) ==
    IF key = "title" THEN { <<"a">>, <<"a", " ", "b">> } ELSE { <<"a">> }

Limits == {DefaultLimit, DefaultLimit + 1}

-----------------------------------------------------------------------------
(* Server values: JavaScript numbers, and the server at rest *)

\* A JavaScript number as parseInt can return it, or undefined.
Num(n) == [tag |-> "number", n |-> n]
NaN == [tag |-> "NaN", n |-> 0]
NumUndefined == [tag |-> "undefined", n |-> 0]

\* JavaScript's null, for a column or an entry field without a value.
Null == <<"null", "null">>

\* req.query.date of ?date=..&date=..: an array instead of a string
Repeated == <<"array", "array">>

\* Calendar days and the clock.  A timestamp counts minutes since the
\* start of day 1, in UTC.
MinutesPerDay == 1440

Day1Text == <<"2", "0", "2", "4", "-", "0", "2", "-", "1", "0">>
Day2Text == <<"2", "0", "2", "4", "-", "0", "2", "-", "1", "1">>

Day3Text == <<"2", "0", "2", "4", "-", "0", "2", "-", "1", "2">>

DayTexts == <<Day1Text, Day2Text, Day3Text>>

\* DATE(text): the day a YYYY-MM-DD text names, 0 when it names none.
DayOfText(s) ==
    IF \E d \in 1..Len(DayTexts) : DayTexts[d] = s
    THEN CHOOSE d \in 1..Len(DayTexts) : DayTexts[d] = s
    ELSE 0

\* DATE(timestamp) and TIME(timestamp)
DayOf(ts) == (ts \div MinutesPerDay) + 1
ClockOf(ts) == ts % MinutesPerDay

\* The moment the server module was loaded and the moment of the
\* requests: 12:00 on day 2.
Now == MinutesPerDay + 720

\* new Date().toISOString().split('T')[0]
Today == DayTexts[DayOf(Now)]

NoRequest ==
    [route |-> "none", query |-> Undefined, date |-> Undefined,
     time |-> Undefined, title |-> Undefined, url |-> Undefined,
     page |-> Undefined, limit |-> Undefined]

NoResponse ==
    [status |-> 0, entries |-> <<>>, hasMore |-> FALSE,
     currentDate |-> Undefined]

NotPlanned ==
    [called |-> FALSE, method |-> "none",
     filters |-> [query |-> Undefined, date |-> Undefined,
                  time |-> Undefined, title |-> Undefined,
                  url |-> Undefined, page |-> NumUndefined,
                  limit |-> NumUndefined]]

Unsent == [kind |-> "none", pc |-> "unsent", seen |-> TRUE, active |-> TRUE]

PlannerIdle ==
    /\ request = NoRequest
    /\ response = NoResponse
    /\ planned = NotPlanned

CaptureIdle ==
    /\ captureActive = TRUE
    /\ calls = [r \in 1..MaxRequests |-> Unsent]
    /\ order = <<>>

\* The server with no request sent to it yet.
ServerIdle ==
    /\ routes = "storage"
    /\ store = <<>>
    /\ tz = 0
    /\ seeding = <<>>
    /\ walk = <<>>
    /\ PlannerIdle
    /\ CaptureIdle

\* useQuery before a response came
NoData == [loaded |-> FALSE, hasMore |-> FALSE]

\* Home as mounted: today's timeline, page 1, and a useSearch() instance
\* of its own with nothing typed into it.
HomeIdle ==
    /\ homeDate = Today
    /\ homePage = 1
    /\ homeSearch = [searchQuery |-> <<>>, page |-> 1, limit |-> DefaultLimit]
    /\ data = NoData
    /\ homeOp = [op |-> "mount",
                 preSearch |-> [searchQuery |-> <<>>, page |-> 1,
                                limit |-> DefaultLimit],
                 preDate |-> Today, prePage |-> 1, box |-> <<>>]

\* The hook and the parser run before anything was done with them.
ClientIdle ==
    /\ HomeIdle
    /\ searchQuery = <<>>
    /\ page = 1
    /\ limit = DefaultLimit
    /\ searchFilters = parseSearchQuery(<<>>) @@ [page |-> 1, limit |-> DefaultLimit]
    /\ activeFilters = <<>>
    /\ lastOp = [op |-> "init", key |-> "none", value |-> <<>>,
                 preQuery |-> <<>>, prePage |-> 1, preLimit |-> DefaultLimit,
                 thrown |-> FALSE]
    /\ raw = <<>>
    /\ parsed = Undefined
    /\ pc = "ready"

-----------------------------------------------------------------------------
(* useSearch.ts: the hook as a state machine.  Each action is one handler   *)
(* together with the render that follows it, in which the two useMemo       *)
(* values are recomputed when their dependencies changed.                   *)

Op(op, key, value) ==
    [op |-> op, key |-> key, value |-> value,
     preQuery |-> searchQuery, prePage |-> page, preLimit |-> limit,
     thrown |-> FALSE]

\* Render, had the dependency array of searchFilters left out page.
RenderStalePage(q, p, l) ==
    /\ searchQuery' = q
    /\ page' = p
    /\ limit' = l
    /\ searchFilters' = IF <<q, l>> # <<searchQuery, limit>>
                        THEN searchFiltersMemo(q, p, l)
                        ELSE searchFilters
    /\ activeFilters' = IF <<q, l>> # <<searchQuery, limit>>
                        THEN activeFiltersMemo(searchFilters')
                        ELSE activeFilters

Render(q, p, l) ==
    /\ searchQuery' = q
    /\ page' = p
    /\ limit' = l
    /\ searchFilters' = IF <<q, p, l>> # <<searchQuery, page, limit>>
                        THEN searchFiltersMemo(q, p, l)
                        ELSE searchFilters
    /\ activeFilters' = IF <<q, p, l>> # <<searchQuery, page, limit>>
                        THEN activeFiltersMemo(searchFilters')
                        ELSE activeFilters

Init ==
    /\ searchQuery = <<>>
    /\ page = 1
    /\ limit = DefaultLimit
    /\ searchFilters = searchFiltersMemo(<<>>, 1, DefaultLimit)
    /\ activeFilters = activeFiltersMemo(searchFilters)
    /\ lastOp = [op |-> "init", key |-> "none", value |-> <<>>,
                 preQuery |-> <<>>, prePage |-> 1, preLimit |-> DefaultLimit,
                 thrown |-> FALSE]
    /\ raw = <<>>
    /\ parsed = Undefined
    /\ pc = "ready"
    /\ ServerIdle
    /\ HomeIdle

\* setSearchQuery, had it reset the page as the filter edits do.
setSearchQueryResetsPage(text) ==
    /\ Render(text, 1, limit)
    /\ lastOp' = [Op("setSearchQuery", "none", text) EXCEPT !.preQuery = <<>>]
    /\ UNCHANGED <<parseVars, serverVars, homeVars>>

setSearchQuery(text) ==
    /\ Render(text, page, limit)
    /\ lastOp' = [Op("setSearchQuery", "none", text) EXCEPT !.preQuery = <<>>]
    /\ UNCHANGED <<parseVars, serverVars, homeVars>>

setPage(p) ==
    /\ Render(searchQuery, p, limit)
    /\ lastOp' = [Op("setPage", "none", <<>>) EXCEPT !.preQuery = <<>>]
    /\ UNCHANGED <<parseVars, serverVars, homeVars>>

setLimit(l) ==
    /\ Render(searchQuery, page, l)
    /\ lastOp' = [Op("setLimit", "none", <<>>) EXCEPT !.preQuery = <<>>]
    /\ UNCHANGED <<parseVars, serverVars, homeVars>>

\* addFilter, had it left out setPage(1).
addFilterKeepsPage(key, value) ==
    /\ Len(addFilterUpdater(searchQuery, key, value)) <= MaxQueryLen
    /\ Render(IF RegExpCompiles(addFilterSource(key))
              THEN addFilterUpdater(searchQuery, key, value)
              ELSE searchQuery,
              page, limit)
    /\ lastOp' = [Op("addFilter", key, value) EXCEPT
                    !.thrown = ~RegExpCompiles(addFilterSource(key))]
    /\ UNCHANGED <<parseVars, serverVars, homeVars>>

\* The updater builds its RegExp when React runs it; setPage(1) was queued
\* by then, so a SyntaxError would leave the string as it was with the page
\* reset.
addFilter(key, value) ==
    /\ Len(addFilterUpdater(searchQuery, key, value)) <= MaxQueryLen
    /\ Render(IF RegExpCompiles(addFilterSource(key))
              THEN addFilterUpdater(searchQuery, key, value)
              ELSE searchQuery,
              1, limit)
    /\ lastOp' = [Op("addFilter", key, value) EXCEPT
                    !.thrown = ~RegExpCompiles(addFilterSource(key))]
    /\ UNCHANGED <<parseVars, serverVars, homeVars>>

removeFilter(filter) ==
    /\ Render(IF RegExpCompiles(removeFilterSource(filter.key, filter.value))
              THEN removeFilterUpdater(searchQuery, filter.key, filter.value)
              ELSE searchQuery,
              1, limit)
    /\ lastOp' = [Op("removeFilter", filter.key, filter.value) EXCEPT
                    !.thrown = ~RegExpCompiles(
                                   removeFilterSource(filter.key, filter.value))]
    /\ UNCHANGED <<parseVars, serverVars, homeVars>>

removeAllFilters ==
    /\ Render(<<>>, 1, limit)
    /\ lastOp' = Op("removeAllFilters", "none", <<>>)
    /\ UNCHANGED <<parseVars, serverVars, homeVars>>

Next ==
    \/ \E text \in Texts : setSearchQuery(text)
    \/ \E p \in 1..MaxPage : setPage(p)
    \/ \E l \in Limits : setLimit(l)
    \/ \E key \in KeySet : \E value \in AddValues(key) : addFilter(key, value)
    \/ \E filter \in {activeFilters[i] : i \in 1..Len(activeFilters)} :
          removeFilter(filter)
    \/ removeAllFilters

Spec == Init /\ [][Next]_vars

-----------------------------------------------------------------------------
(* filters.ts: parseSearchQuery run on its own, over every input that is    *)
(* at most MaxTokens pieces joined by single spaces.  An empty piece gives  *)
(* leading, trailing and doubled spaces.                                    *)

Pieces ==
    { <<>>,
      <<"x">>,
      <<"y">>,
      Tok("date", <<"a">>),
      Tok("date", <<"b">>),
      <<"D", "a", "t", "e", ":", "B">>,
      <<"u", "p">> \o Tok("date", <<"a">>),
      <<"s", "u", "b">> \o Tok("title", <<"x">>),
      Tok("time", <<"a">>),
      Tok("title", <<"\"", "a">>),
      <<"b", "\"">>,
      Tok("url", <<"a">>),
      <<"u", "r", "l", ":">> }

\* "meeting notes date:2023-10-26"
ScenarioA ==
    <<"m", "e", "e", "t", "i", "n", "g", " ", "n", "o", "t", "e", "s", " ",
      "d", "a", "t", "e", ":", "2", "0", "2", "3", "-", "1", "0", "-", "2",
      "6">>

\* "client presentation title:final date:2024-02-10 time:15:00-17:00"
ScenarioB ==
    <<"c", "l", "i", "e", "n", "t", " ", "p", "r", "e", "s", "e", "n", "t",
      "a", "t", "i", "o", "n", " ", "t", "i", "t", "l", "e", ":", "f", "i",
      "n", "a", "l", " ", "d", "a", "t", "e", ":", "2", "0", "2", "4", "-",
      "0", "2", "-", "1", "0", " ", "t", "i", "m", "e", ":", "1", "5", ":",
      "0", "0", "-", "1", "7", ":", "0", "0">>

Scenarios == {ScenarioA, ScenarioB}

RECURSIVE Join(_)
Join(ps) ==
    IF ps = <<>> THEN <<>>
    ELSE IF Len(ps) = 1 THEN ps[1]
    ELSE ps[1] \o Sp \o Join(Tail(ps))

\* One filter token with its keyword in three spellings, and a value with
\* a capital letter.
CaseInputs ==
    { <<"D", "A", "T", "E", ":", "x">>,
      <<"D", "a", "t", "e", ":", "x">>,
      <<"d", "a", "t", "e", ":", "x">>,
      <<"T", "I", "T", "L", "E", ":", "F", "i", "n", "a", "l">> }

RawInputs ==
    {Join(ps) : ps \in UNION {[1..n -> Pieces] : n \in 0..MaxTokens}}

InitParse ==
    /\ searchQuery = <<>>
    /\ page = 1
    /\ limit = DefaultLimit
    /\ searchFilters = searchFiltersMemo(<<>>, 1, DefaultLimit)
    /\ activeFilters = activeFiltersMemo(searchFilters)
    /\ lastOp = [op |-> "init", key |-> "none", value |-> <<>>,
                 preQuery |-> <<>>, prePage |-> 1, preLimit |-> DefaultLimit,
                 thrown |-> FALSE]
    /\ raw \in RawInputs \cup Scenarios \cup CaseInputs
    /\ parsed = Undefined
    /\ pc = "ready"
    /\ ServerIdle
    /\ HomeIdle

Parse ==
    /\ pc = "ready"
    /\ parsed' = parseSearchQuery(raw)
    /\ pc' = "parsed"
    /\ UNCHANGED <<raw, hookVars, serverVars, homeVars>>

NextParse == Parse

SpecParse == InitParse /\ [][NextParse]_vars

-----------------------------------------------------------------------------
(* Server: values of a request and conversions *)

Digits == <<"0", "1", "2", "3", "4", "5", "6", "7", "8", "9">>

IsDigit(c) == \E d \in 1..Len(Digits) : Digits[d] = c

DigitVal(c) == (CHOOSE d \in 1..Len(Digits) : Digits[d] = c) - 1

\* The index of the last of the digits that start at index j, j - 1 when
\* there is none.
RECURSIVE DigitsEnd(_, _)
DigitsEnd(s, j) ==
    IF j <= Len(s) /\ IsDigit(s[j]) THEN DigitsEnd(s, j + 1) ELSE j - 1

\* The value of a string of decimal digits.
RECURSIVE DecValue(_)
DecValue(ds) ==
    IF ds = <<>> THEN 0
    ELSE 10 * DecValue(SubSeq(ds, 1, Len(ds) - 1)) + DigitVal(ds[Len(ds)])

\* parseInt(s): leading whitespace, a sign, then the longest run of digits;
\* NaN when there is no digit.
ParseInt(s) ==
    LET t == TrimStart(s)
        signed == t # <<>> /\ Head(t) \in {"-", "+"}
        u == IF signed THEN Tail(t) ELSE t
    IN  IF DigitsEnd(u, 1) = 0 THEN NaN
        ELSE IF signed /\ Head(t) = "-"
        THEN Num(0 - DecValue(SubSeq(u, 1, DigitsEnd(u, 1))))
        ELSE Num(DecValue(SubSeq(u, 1, DigitsEnd(u, 1))))

\* value || fallback, for a query-string parameter
OrElse(v, fallback) == IF Truthy(v) THEN v ELSE fallback

\* s.includes(sub), and with both sides lower-cased when ci
Includes(s, sub, ci) == \E i \in 1..(Len(s) + 1) : LitAt(s, i, sub, ci)

\* column LIKE '%sub%' in PostgreSQL (pgTable): a case-sensitive substring
\* test that a NULL column does not pass.
Like(column, sub) == column # Null /\ Includes(column, sub, FALSE)

-----------------------------------------------------------------------------
(* Server: clock times and the windows of a time filter *)

\* The minutes of a clock text HH:MM, -1 when the text is not one.
ClockOfText(s) ==
    IF /\ Len(s) = 5
       /\ IsDigit(s[1]) /\ IsDigit(s[2]) /\ s[3] = ":"
       /\ IsDigit(s[4]) /\ IsDigit(s[5])
       /\ DecValue(SubSeq(s, 1, 2)) < 24
       /\ DecValue(SubSeq(s, 4, 5)) < 60
    THEN 60 * DecValue(SubSeq(s, 1, 2)) + DecValue(SubSeq(s, 4, 5))
    ELSE -1

\* time.split('-'): the text before the first '-' and the text between
\* the first and the second.
DashAt(s) == {i \in 1..Len(s) : s[i] = "-"}

RangeStart(s) == SubSeq(s, 1, Min(DashAt(s)) - 1)

RangeEnd(s) ==
    LET rest == SubSeq(s, Min(DashAt(s)) + 1, Len(s))
    IN  IF DashAt(rest) = {} THEN rest
        ELSE SubSeq(rest, 1, Min(DashAt(rest)) - 1)

\* The zones the server may run in: UTC and UTC+13
Zones == {0, 780}

\* new Date(text) followed by setHours(0, 0, 0, 0), for the text of a day:
\* the moment at which the local day begins that holds the UTC midnight of
\* that day.
LocalMidnight(day) ==
    (((day - 1) * MinutesPerDay + tz) \div MinutesPerDay) * MinutesPerDay - tz

\* The clock window [from, to] of a time filter, or invalid: a range
\* start-end is taken as written; a single time is read as local time,
\* widened by one minute (60000 ms) on each side and each end printed in
\* UTC by toISOString(), of which the clock part is kept.
TimeWindow(time) ==
    IF DashAt(time) # {}
    THEN [valid |-> ClockOfText(RangeStart(time)) >= 0
                    /\ ClockOfText(RangeEnd(time)) >= 0,
          from  |-> ClockOfText(RangeStart(time)),
          to    |-> ClockOfText(RangeEnd(time))]
    ELSE [valid |-> ClockOfText(time) >= 0,
          from  |-> (ClockOfText(time) - tz - 1) % MinutesPerDay,
          to    |-> (ClockOfText(time) - tz + 1) % MinutesPerDay]

-----------------------------------------------------------------------------
(* Server: the rows of the store and the entries of the mock data *)

Row(id, timestamp, title, app, window, url, text) ==
    [id |-> id, timestamp |-> timestamp, title |-> title, app_name |-> app,
     window_title |-> window, url |-> url, extracted_text |-> text]

\* value || null
OrNull(v) == IF v = Null \/ v = <<>> THEN Null ELSE v

\* A row in the format the client expects.
ClientEntry(row) ==
    [id            |-> row.id,
     timestamp     |-> row.timestamp,
     title         |-> OrNull(row.title),
     appName       |-> OrNull(row.app_name),
     windowTitle   |-> OrNull(row.window_title),
     url           |-> OrNull(row.url),
     extractedText |-> OrNull(row.extracted_text)]

\* The three sample rows: 30, 60 and 90 minutes old, the second one alone
\* with a URL.  Their texts are shortened.
SampleRows ==
    << Row(1, Now - 30, <<"E", "d", "i", "t">>, <<"i", "d", "e">>,
           <<"u", "i">>, Null, <<"d", "a", "t", "a">>),
       Row(2, Now - 60, <<"D", "a", "t", "a">>, <<"a", "i", "r">>,
           <<"D", "a", "t", "a">>, <<"d", ".", "u", "r", "l">>,
           <<"m", "a", "i", "l">>),
       Row(3, Now - 90, <<"T", "e", "r", "m">>, <<"t", "e", "r", "m">>,
           <<"t", "e", "r", "m">>, Null, <<"l", "a", "t", "e">>) >>

\* MOCK_DATA.entries: the same three entries, already in client format.
MockEntries == [i \in 1..Len(SampleRows) |-> ClientEntry(SampleRows[i])]

\* A store of StoreSize rows of one day, the later id the later timestamp,
\* every second row with a URL.
ManyRows ==
    [i \in 1..StoreSize |->
        Row(i, Now - StoreSize + i, <<"d", "a", "t", "a">>, Null, Null,
            IF i % 2 = 0 THEN <<"d", ".", "u", "r", "l">> ELSE Null, Null)]

\* A store with two rows of one timestamp and a row of the day before.
TieRows ==
    << Row(1, Now - MinutesPerDay, <<"d", "a">>, Null, Null,
           <<"D", ".", "U", "R", "L">>, Null),
       Row(2, Now - 30, <<"D", "a", "t", "a">>, Null, Null,
           <<"d", ".", "u", "r", "l">>, Null),
       Row(3, Now - 30, <<"d", "a", "t", "a">>, Null, Null, Null,
           <<"u", "r", "l">>) >>

\* A store with rows just before, at and just after midnight.
MidnightRows ==
    << Row(1, MinutesPerDay - 1, <<"d", "a", "t", "a">>, Null, Null, Null,
           Null),
       Row(2, MinutesPerDay, <<"d", "a", "t", "a">>, Null, Null, Null, Null),
       Row(3, MinutesPerDay + 1, <<"d", "a", "t", "a">>, Null, Null, Null,
           Null) >>

Stores == { <<>>, SampleRows, TieRows, ManyRows, MidnightRows }

-----------------------------------------------------------------------------
(* Server: DatabaseStorage.searchEntries and getTimelineEntries *)

\* The WHERE clauses of searchEntries.  Successive where() calls are taken
\* as a conjunction ("Apply filters one by one").
RowMatches(row, f) ==
    /\ Truthy(f.query) =>
          \/ Like(row.title, f.query)
          \/ Like(row.window_title, f.query)
          \/ Like(row.app_name, f.query)
          \/ Like(row.url, f.query)
          \/ Like(row.extracted_text, f.query)
    /\ Truthy(f.date) => DayOf(row.timestamp) = DayOfText(f.date)
    /\ Truthy(f.time) =>
          /\ ClockOf(row.timestamp) >= TimeWindow(f.time).from
          /\ ClockOf(row.timestamp) <= TimeWindow(f.time).to
    /\ Truthy(f.title) => Like(row.title, f.title)
    /\ Truthy(f.url) => Like(row.url, f.url)

Matching(rows, f) == {rows[i] : i \in {j \in 1..Len(rows) : RowMatches(rows[j], f)}}

\* The WHERE clause of getTimelineEntries: DATE(timestamp) against the
\* DATE of startDate.toISOString(), the local start of the day printed in
\* UTC.
TimelineMatching(rows, f) ==
    {rows[i] : i \in {j \in 1..Len(rows) :
        DayOf(rows[j].timestamp) = DayOf(LocalMidnight(DayOfText(f.date)))}}

\* The query fails: a date or a time the database cannot read, a Date that
\* toISOString() cannot print, a LIMIT or an OFFSET that is not a number
\* or is negative.
QueryFails(f) ==
    \/ Truthy(f.date) /\ DayOfText(f.date) = 0
    \/ Truthy(f.time) /\ ~TimeWindow(f.time).valid
    \/ f.page.tag # "number"
    \/ f.limit.tag # "number"
    \/ (f.page.n - 1) * f.limit.n < 0
    \/ f.limit.n + 1 < 0

\* The rows in id order.
RECURSIVE AscById(_)
AscById(S) ==
    IF S = {} THEN <<>>
    ELSE <<CHOOSE m \in S : \A o \in S : m.id <= o.id>>
         \o AscById(S \ {CHOOSE m \in S : \A o \in S : m.id <= o.id})

\* The query, had it no orderBy: the rows come in id order.
InsertionOrders(S) == {AscById(S)}

\* ORDER BY timestamp DESC: every order of the rows in which no timestamp
\* is followed by a greater one; rows of one timestamp come in any order.
RECURSIVE DescOrders(_)
DescOrders(S) ==
    IF S = {} THEN { <<>> }
    ELSE UNION { { <<r>> \o rest : rest \in DescOrders(S \ {r}) } :
                 r \in {m \in S : \A o \in S : m.timestamp >= o.timestamp} }

\* LIMIT limit OFFSET (page - 1) * limit, had the extra row not been asked.
FetchRowsNoExtra(sorted, pg, lim) ==
    SubSeq(sorted, (pg - 1) * lim + 1,
           IF (pg - 1) * lim + lim < Len(sorted)
           THEN (pg - 1) * lim + lim ELSE Len(sorted))

\* LIMIT limit + 1 OFFSET (page - 1) * limit
FetchRows(sorted, pg, lim) ==
    SubSeq(sorted, (pg - 1) * lim + 1,
           IF (pg - 1) * lim + lim + 1 < Len(sorted)
           THEN (pg - 1) * lim + lim + 1 ELSE Len(sorted))

\* entriesQuery.slice(0, limit)
Slice(rows, lim) ==
    IF lim >= 0
    THEN SubSeq(rows, 1, IF lim < Len(rows) THEN lim ELSE Len(rows))
    ELSE SubSeq(rows, 1, IF Len(rows) + lim > 0 THEN Len(rows) + lim ELSE 0)

Failure(status) == [NoResponse EXCEPT !.status = status]

\* hasMore, the truncation and the mapping to the client format
PageResult(fetched, lim, currentDate) ==
    [status      |-> 200,
     entries     |-> IF Len(fetched) > lim
                     THEN [i \in 1..Len(Slice(fetched, lim)) |->
                              ClientEntry(Slice(fetched, lim)[i])]
                     ELSE [i \in 1..Len(fetched) |-> ClientEntry(fetched[i])],
     hasMore     |-> Len(fetched) > lim,
     currentDate |-> currentDate]

\* searchEntries(filters) on the rows as the database ordered them
searchEntries(f, sorted) ==
    IF QueryFails(f) THEN Failure(500)
    ELSE PageResult(FetchRows(sorted, f.page.n, f.limit.n), f.limit.n,
                    OrElse(f.date, Today))

\* getTimelineEntries(date, page, limit): f.date is currentDate here.
getTimelineEntries(f, sorted) ==
    IF QueryFails(f) THEN Failure(500)
    ELSE PageResult(FetchRows(sorted, f.page.n, f.limit.n), f.limit.n,
                    f.date)

-----------------------------------------------------------------------------
(* Server: the routes GET /api/search and GET /api/timeline *)

QueryTexts == {Undefined, <<"d", "a">>, <<"m", " ", "t">>}
DateTexts  == {Undefined, Day2Text, <<"x">>, Repeated}
TimeTexts  == {Undefined, <<"1", "2", ":", "0", "0">>,
               <<"0", "0", ":", "0", "0">>,
               <<"1", "1", ":", "0", "0", "-", "1", "2", ":", "3", "0">>}
TitleTexts == {Undefined, <<"d", "a">>}
UrlTexts   == {Undefined, <<"U", "R", "L">>}
PageTexts  == {Undefined, <<"2">>, <<"0">>, <<"x">>}
LimitTexts == {Undefined, <<"2">>, <<"0">>, <<"x">>}

\* req.query of the requests sent to the two routes
SearchRequests ==
    [route : {"search"}, query : QueryTexts, date : DateTexts,
     time : TimeTexts, title : TitleTexts, url : UrlTexts,
     page : PageTexts, limit : LimitTexts]

TimelineRequests ==
    [route : {"timeline"}, query : {Undefined}, date : DateTexts,
     time : {Undefined}, title : {Undefined}, url : {Undefined},
     page : PageTexts, limit : LimitTexts]

\* rawFilters of GET /api/search, undefined values left in place of the
\* deleted keys
RawFilters(q) ==
    [query |-> q.query, date |-> q.date, time |-> q.time, title |-> q.title,
     url   |-> q.url,
     page  |-> IF Truthy(q.page) THEN ParseInt(q.page) ELSE NumUndefined,
     limit |-> IF Truthy(q.limit) THEN ParseInt(q.limit) ELSE NumUndefined]

\* searchFiltersSchema.parse, had it let every value through.
SchemaRejectsNothing(rawFilters) == FALSE

\* searchFiltersSchema.parse throws a ZodError: z.number() takes every
\* number but NaN; z.string() takes the strings of a query string and not
\* the array of a repeated parameter.
SchemaRejects(rawFilters) ==
    \/ rawFilters.page.tag = "NaN"
    \/ rawFilters.limit.tag = "NaN"
    \/ \E k \in {"query", "date", "time", "title", "url"} :
          rawFilters[k] = Repeated

\* searchFiltersSchema.parse: page and limit default to 1 and 12
SchemaParse(rawFilters) ==
    [rawFilters EXCEPT
        !.page  = IF @.tag = "undefined" THEN Num(1) ELSE @,
        !.limit = IF @.tag = "undefined" THEN Num(DefaultLimit) ELSE @]

\* The arguments GET /api/timeline hands to getTimelineEntries, with the
\* date the method resolves first.
TimelineFilters(q) ==
    [query |-> Undefined, date |-> OrElse(q.date, Today), time |-> Undefined,
     title |-> Undefined, url |-> Undefined,
     page  |-> ParseInt(OrElse(q.page, <<"1">>)),
     limit |-> ParseInt(OrElse(q.limit, <<"1", "2">>))]

\* The filter callback of the mock GET /api/search
MockMatches(entry, q) ==
    LET fields == SelectSeq(<<entry.title, entry.appName, entry.windowTitle,
                              entry.url, entry.extractedText>>,
                            LAMBDA v : v # Null /\ v # <<>>)
    IN  /\ Truthy(q.query) => Includes(Join(fields), q.query, TRUE)
        /\ Truthy(q.title) =>
              entry.title # Null /\ Includes(entry.title, q.title, TRUE)
        /\ (Truthy(q.url) /\ entry.url # Null) =>
              Includes(entry.url, q.url, TRUE)

Arrive(q) ==
    /\ request = NoRequest
    /\ request' = q
    /\ UNCHANGED <<response, planned, store, routes, captureVars, hookVars,
                   parseVars, tz, seeding, walk, homeVars>>

SearchStorage ==
    /\ routes = "storage"
    /\ request.route = "search"
    /\ response = NoResponse
    /\ IF SchemaRejects(RawFilters(request))
       THEN /\ response' = Failure(400)
            /\ UNCHANGED planned
       ELSE /\ planned' = [called |-> TRUE, method |-> "searchEntries",
                           filters |-> SchemaParse(RawFilters(request))]
            /\ \E sorted \in DescOrders(Matching(store, planned'.filters)) :
                  response' = searchEntries(planned'.filters, sorted)
    /\ UNCHANGED <<request, store, routes, captureVars, hookVars, parseVars, tz, seeding, walk, homeVars>>

TimelineStorage ==
    /\ routes = "storage"
    /\ request.route = "timeline"
    /\ response = NoResponse
    /\ planned' = [called |-> TRUE, method |-> "getTimelineEntries",
                   filters |-> TimelineFilters(request)]
    /\ \E sorted \in DescOrders(TimelineMatching(store, planned'.filters)) :
          response' = getTimelineEntries(planned'.filters, sorted)
    /\ UNCHANGED <<request, store, routes, captureVars, hookVars, parseVars, tz, seeding, walk, homeVars>>

SearchMock ==
    /\ routes = "mock"
    /\ request.route = "search"
    /\ response = NoResponse
    /\ response' = [status      |-> 200,
                    entries     |-> SelectSeq(MockEntries,
                                      LAMBDA e : MockMatches(e, request)),
                    hasMore     |-> FALSE,
                    currentDate |-> OrElse(request.date, Today)]
    /\ UNCHANGED <<request, planned, store, routes, captureVars, hookVars,
                   parseVars, tz, seeding, walk, homeVars>>

TimelineMock ==
    /\ routes = "mock"
    /\ request.route = "timeline"
    /\ response = NoResponse
    /\ response' = [status      |-> 200,
                    entries     |-> MockEntries,
                    hasMore     |-> FALSE,
                    currentDate |-> OrElse(request.date, Today)]
    /\ UNCHANGED <<request, planned, store, routes, captureVars, hookVars,
                   parseVars, tz, seeding, walk, homeVars>>

\* The client takes the response; the server is at rest again.
Deliver ==
    /\ response # NoResponse
    /\ request' = NoRequest
    /\ response' = NoResponse
    /\ planned' = NotPlanned
    /\ UNCHANGED <<store, routes, captureVars, hookVars, parseVars, tz, seeding, walk, homeVars>>

\* POST /api/sample-data: the handler builds its three entries, their
\* timestamps taken from the clock at that moment.  The model posts it to
\* an empty store only.
SampleDataStart ==
    /\ routes = "storage"
    /\ seeding = <<>>
    /\ store = <<>>
    /\ seeding' = SampleRows
    /\ UNCHANGED <<store, routes, tz, walk, plannerVars, captureVars,
                   hookVars, parseVars, homeVars>>

\* One turn of its loop: await db.insert(screenshotEntries).values(entry),
\* the id given by the serial column.  Other requests are served between
\* two inserts; an insert is taken when no answer waits to be delivered
\* (an answer already computed and an insert commute).
SampleDataInsert ==
    /\ seeding # <<>>
    /\ response = NoResponse
    /\ store' = Append(store, [Head(seeding) EXCEPT !.id = Len(store) + 1])
    /\ seeding' = Tail(seeding)
    /\ UNCHANGED <<request, response, planned, routes, tz, walk,
                   captureVars, hookVars, parseVars, homeVars>>

InitPlanner ==
    /\ ClientIdle
    /\ CaptureIdle
    /\ PlannerIdle
    /\ seeding = <<>>
    /\ walk = <<>>
    /\ routes \in {"mock", "storage"}
    /\ store \in IF routes = "mock" THEN { <<>> } ELSE Stores
    /\ tz \in IF routes = "mock" THEN {0} ELSE Zones

NextPlanner ==
    \/ \E q \in SearchRequests : Arrive(q)
    \/ \E q \in TimelineRequests : Arrive(q)
    \/ SearchStorage
    \/ TimelineStorage
    \/ SearchMock
    \/ TimelineMock
    \/ SampleDataStart
    \/ SampleDataInsert
    \/ Deliver

SpecPlanner == InitPlanner /\ [][NextPlanner]_vars

-----------------------------------------------------------------------------
(* A client that reads a result page by page: the same filters and limit   *)
(* with page 1, 2, 3, ... as long as the page before had hasMore, each     *)
(* page a request of its own to the storage routes.                        *)

\* page.toString()
DecText(n) ==
    IF n < 10 THEN <<Digits[n + 1]>>
    ELSE <<Digits[(n \div 10) + 1], Digits[(n % 10) + 1]>>

PageSizes == {Undefined, <<"1">>, <<"2">>}

\* The requests for a first page
FirstPages ==
    [route : {"search"}, query : {Undefined}, date : {Undefined, Day2Text},
     time : {Undefined}, title : {Undefined, <<"d", "a">>},
     url : {Undefined}, page : {Undefined}, limit : PageSizes]
    \cup
    [route : {"timeline"}, query : {Undefined}, date : {Undefined, Day2Text},
     time : {Undefined}, title : {Undefined}, url : {Undefined},
     page : {Undefined}, limit : PageSizes]

\* The ids of the entries of a page
IdsOf(entries) == [i \in 1..Len(entries) |-> entries[i].id]

\* The first page is asked for, or the page after the last one taken.
ArrivePage ==
    IF walk = <<>>
    THEN \E q \in FirstPages : Arrive(q)
    ELSE /\ walk[Len(walk)].hasMore
         /\ Arrive([walk[1].request EXCEPT !.page = DecText(Len(walk) + 1)])

\* The client takes the page and keeps it after the pages it has.
TakePage ==
    /\ response # NoResponse
    /\ walk' = Append(walk, [request |-> request,
                             ids     |-> IdsOf(response.entries),
                             hasMore |-> response.hasMore])
    /\ request' = NoRequest
    /\ response' = NoResponse
    /\ planned' = NotPlanned
    /\ UNCHANGED <<store, routes, tz, seeding, captureVars, hookVars,
                   parseVars, homeVars>>

InitPaging ==
    /\ ClientIdle
    /\ CaptureIdle
    /\ PlannerIdle
    /\ seeding = <<>>
    /\ walk = <<>>
    /\ routes = "storage"
    /\ store \in Stores
    /\ tz \in Zones

NextPaging ==
    \/ ArrivePage
    \/ SearchStorage
    \/ TimelineStorage
    \/ TakePage

SpecPaging == InitPaging /\ [][NextPaging]_vars

-----------------------------------------------------------------------------
(* Server: the capture flag.  A request is sent, then handled, then        *)
(* answered.  The handler runs as one step up to its await: node runs a    *)
(* callback to completion, and toggleCaptureStatus has no await in it.     *)

\* toggleCaptureStatus, had it built its answer before flipping the flag.
toggleCaptureStatusReturnsOld(flag) == [flag |-> ~flag, active |-> flag]

\* toggleCaptureStatus(): the flag after the call and the value returned.
toggleCaptureStatus(flag) == [flag |-> ~flag, active |-> ~flag]

\* getCaptureStatus()
getCaptureStatus(flag) == [flag |-> flag, active |-> flag]

\* The requests are numbered in the order they are sent; seen records the
\* flag at that moment.
Send(r, kind) ==
    /\ calls[r].pc = "unsent"
    /\ \A q \in 1..(r - 1) : calls[q].pc # "unsent"
    /\ calls' = [calls EXCEPT ![r] = [kind |-> kind, pc |-> "sent",
                                      seen |-> captureActive, active |-> TRUE]]
    /\ UNCHANGED <<captureActive, order, routes, plannerVars, hookVars,
                   parseVars, tz, seeding, walk, homeVars>>

SendToggle(r) == Send(r, "toggle")

SendStatus(r) == Send(r, "status")

\* The handler up to its await (storage routes) or to its end (mock).
Handled(r, result) ==
    /\ captureActive' = result.flag
    /\ calls' = [calls EXCEPT
                    ![r].active = result.active,
                    ![r].pc = IF routes = "mock" THEN "done" ELSE "awaiting"]
    /\ order' = Append(order, r)
    /\ UNCHANGED <<routes, plannerVars, hookVars, parseVars, tz, seeding, walk, homeVars>>

\* POST /api/capture/toggle, had it flipped the flag it saw when the
\* request was sent instead of the flag of the moment.
HandleToggleRacy(r) ==
    /\ calls[r].pc = "sent"
    /\ calls[r].kind = "toggle"
    /\ Handled(r, toggleCaptureStatus(calls[r].seen))

\* POST /api/capture/toggle
HandleToggle(r) ==
    /\ calls[r].pc = "sent"
    /\ calls[r].kind = "toggle"
    /\ Handled(r, toggleCaptureStatus(captureActive))

\* GET /api/capture/status
HandleStatus(r) ==
    /\ calls[r].pc = "sent"
    /\ calls[r].kind = "status"
    /\ Handled(r, getCaptureStatus(captureActive))

\* res.json(status), after the await
Respond(r) ==
    /\ calls[r].pc = "awaiting"
    /\ calls' = [calls EXCEPT ![r].pc = "done"]
    /\ UNCHANGED <<captureActive, order, routes, plannerVars, hookVars,
                   parseVars, tz, seeding, walk, homeVars>>

InitCapture ==
    /\ ClientIdle
    /\ PlannerIdle
    /\ CaptureIdle
    /\ tz = 0
    /\ seeding = <<>>
    /\ walk = <<>>
    /\ routes \in {"mock", "storage"}
    /\ store = <<>>

NextCapture ==
    \E r \in 1..MaxRequests :
        \/ SendToggle(r)
        \/ SendStatus(r)
        \/ HandleToggle(r)
        \/ HandleStatus(r)
        \/ Respond(r)

SpecCapture == InitCapture /\ [][NextCapture]_vars

-----------------------------------------------------------------------------
(* Home.tsx: the page under the Layout.  The search box and the filter     *)
(* chips belong to Layout, which calls useSearch() for itself: its state   *)
(* is searchQuery, page, limit above.  Home calls useSearch() again and    *)
(* gets a state of its own, homeSearch, whose setters it never calls.      *)

\* searchFilters as Home's useSearch() returns it
HomeFilters(search) ==
    searchFiltersMemo(search.searchQuery, search.page, search.limit)

\* const queryKey = searchFilters.query ? [...] : [...]; useQuery fetches
\* what the key names.
QueryKeyOf(search, date, pg) ==
    IF Truthy(HomeFilters(search).query)
    THEN <<"/api/search", HomeFilters(search)>>
    ELSE <<"/api/timeline", [date |-> date, page |-> pg]>>

QueryKey == QueryKeyOf(homeSearch, homeDate, homePage)

\* The page number a key carries
KeyPage(key) == key[2].page

\* The operation, with the state of Home and the text of the search box
\* before it
HomeOp(op) ==
    [op |-> op, preSearch |-> homeSearch, preDate |-> homeDate,
     prePage |-> homePage, box |-> searchQuery]

\* useQuery receives the response to the request of the current key.
Fetched(more) ==
    /\ ~data.loaded
    /\ data' = [loaded |-> TRUE, hasMore |-> more]
    /\ homeOp' = HomeOp("fetched")
    /\ UNCHANGED <<homeDate, homePage, homeSearch, hookVars, parseVars,
                   serverVars>>

\* const loadMore = () => setPage(prev => prev + 1), the onClick of the
\* Load More button that Timeline shows while hasMore is true.
loadMore ==
    /\ data.loaded /\ data.hasMore
    /\ homePage <= MaxLoads
    /\ homePage' = homePage + 1
    /\ data' = NoData
    /\ homeOp' = HomeOp("loadMore")
    /\ UNCHANGED <<homeDate, homeSearch, hookVars, parseVars, serverVars>>

\* handleDateChange: a day back or forth, and page 1 again.  The days of
\* the model are those of DayTexts.
handleDateChange(direction) ==
    LET day == DayOfText(homeDate) + (IF direction = "prev" THEN -1 ELSE 1)
    IN  /\ day \in 1..Len(DayTexts)
        /\ homeDate' = DayTexts[day]
        /\ homePage' = 1
        /\ data' = NoData
        /\ homeOp' = HomeOp("handleDateChange")
        /\ UNCHANGED <<homeSearch, hookVars, parseVars, serverVars>>

\* The texts typed into the search box on this page: nothing, free text,
\* filters only, and both.
HomeTexts ==
    { <<>>,
      <<"x">>,
      Tok("time", <<"a">>) \o Sp \o Tok("url", <<"z">>),
      <<"x">> \o Sp \o Tok("date", <<"a">>) \o Sp \o <<"y">> }

InitHome == Init

\* What the user can do on the page: type into the search box of Layout,
\* change the day, press Load More; and the response that arrives.
NextHome ==
    \/ \E text \in HomeTexts : setSearchQuery(text)
    \/ \E more \in BOOLEAN : Fetched(more)
    \/ loadMore
    \/ \E direction \in {"prev", "next"} : handleDateChange(direction)

SpecHome == InitHome /\ [][NextHome]_vars

-----------------------------------------------------------------------------
(* Vocabulary of the claims *)

\* The whitespace-separated tokens of a string, in order.
RECURSIVE Tokens(_)
Tokens(s) ==
    IF s = <<>> THEN <<>>
    ELSE IF IsSpace(Head(s)) THEN Tokens(Tail(s))
    ELSE <<SubSeq(s, 1, NonSpaceEnd(s, 1))>>
         \o Tokens(SubSeq(s, NonSpaceEnd(s, 1) + 1, Len(s)))

\* A value with no whitespace in it and at least one character.
IsBare(v) == v # <<>> /\ \A i \in 1..Len(v) : ~IsSpace(v[i])

\* The places of token t where the prefix key: is followed by a character.
PrefixAt(t, key) ==
    {i \in 1..Len(t) :
        /\ LitAt(t, i, KeyChars(key) \o <<":">>, TRUE)
        /\ i + Len(KeyChars(key)) + 1 <= Len(t)}

\* Token t has the form prefix:value for this key.
IsFilterToken(t, key) == 1 \in PrefixAt(t, key)

TokenValue(t, key) == SubSeq(t, Len(KeyChars(key)) + 2, Len(t))

\* The structured filters of a canonical string, as the hook exposes them.
FiltersOf(q) == searchFiltersMemo(q, 1, limit)

-----------------------------------------------------------------------------
(* Claims about the filter state manager (specification Spec) *)

\* C1: after addFilter or removeFilter, re-parsing the canonical string
\* gives structured filters that differ from the ones before the edit in the
\* edited key only: the free-text query and every other filter field are
\* the same as before.
C1_EditChangesOnlyEditedKey ==
    lastOp.op \in {"addFilter", "removeFilter"} =>
        LET before == parseSearchQuery(lastOp.preQuery)
            after  == parseSearchQuery(searchQuery)
        IN  /\ after.query = before.query
            /\ \A key \in KeySet \ {lastOp.key} : after[key] = before[key]

\* C2: addFilter(key, value) with a bare value removes every token of that
\* key the parser would recognise and appends key:value: parsing the result
\* gives key = value, and no token of that key is left for the parser in the
\* residual free text.
C2_AddReplacesOldValue ==
    (lastOp.op = "addFilter" /\ IsBare(lastOp.value)) =>
        /\ searchFilters[lastOp.key] = lastOp.value
        /\ ~FilterMatch(searchFilters.query, lastOp.key,
                        Quoted(lastOp.key)).found

\* C3: removeFilter(f), for an active filter f of the current canonical
\* string, removes exactly the tokens key:value of f and no other text (the
\* other whitespace-separated tokens are left as they were, in order), and
\* the key is unset after re-parsing.
C3_RemoveExactToken ==
    lastOp.op = "removeFilter" =>
        /\ Tokens(searchQuery) =
              SelectSeq(Tokens(lastOp.preQuery),
                        LAMBDA t : t # Tok(lastOp.key, lastOp.value))
        /\ searchFilters[lastOp.key] = Undefined

\* C4: addFilter(key, value) applied a second time with the same arguments
\* gives the same structured filters as applied once.
C4_AddIdempotent ==
    lastOp.op = "addFilter" =>
        FiltersOf(addFilterUpdater(searchQuery, lastOp.key, lastOp.value))
            = FiltersOf(searchQuery)

\* Removing filter A the way the hook's callers do: removeFilter is handed
\* the active filter of A's key that the current string projects to.
RemoveActive(q, key) ==
    IF Truthy(parseSearchQuery(q)[key])
    THEN removeFilterUpdater(q, key, parseSearchQuery(q)[key])
    ELSE q

\* C5: from any starting canonical string, adding filter A, then adding
\* filter B of another key, then removing A gives the same structured
\* filters as adding only B.
C5_AddAddRemoveCommutes ==
    \A keyA \in KeySet, keyB \in KeySet :
      \A a \in AddValues(keyA), b \in AddValues(keyB) :
        keyA # keyB =>
            FiltersOf(RemoveActive(
                addFilterUpdater(addFilterUpdater(searchQuery, keyA, a),
                                 keyB, b),
                keyA))
            = FiltersOf(addFilterUpdater(searchQuery, keyB, b))

\* C6: in every reachable state the exposed structured filters are the
\* parse of the canonical string extended with the cached page and limit,
\* and the active-filter list is the projection of those structured filters.
C6_DerivedInSync ==
    /\ searchFilters =
          parseSearchQuery(searchQuery) @@ [page |-> page, limit |-> limit]
    /\ activeFilters = filtersToActiveFilters(searchFilters)

\* C6 witness: a state with page and limit off their defaults, free text
\* in the query and at least two active filters.
C6_Witness ==
    /\ page = MaxPage
    /\ limit # DefaultLimit
    /\ Len(activeFilters) >= 2
    /\ searchFilters.query # <<>>

\* C7: addFilter, removeFilter and removeAllFilters leave page at 1 whatever
\* it was before, and removeAllFilters leaves the canonical string empty.
C7_EditsResetPage ==
    /\ lastOp.op \in {"addFilter", "removeFilter", "removeAllFilters"}
          => page = 1
    /\ lastOp.op = "removeAllFilters" => searchQuery = <<>>

\* C7 witness: addFilter was called on page 2.
C7_Witness ==
    /\ lastOp.op = "addFilter"
    /\ lastOp.prePage = MaxPage
    /\ page = 1

\* C8: setQuery(text) makes the canonical string text, verbatim, and leaves
\* page and limit as they were.
C8_SetQueryVerbatim ==
    lastOp.op = "setSearchQuery" =>
        /\ searchQuery = lastOp.value
        /\ page = lastOp.prePage
        /\ limit = lastOp.preLimit

\* C8 witness: a text with spaces around it was set on page 2 with a limit
\* other than the default.
C8_Witness ==
    /\ lastOp.op = "setSearchQuery"
    /\ searchQuery = Sp \o <<"x">> \o Sp
    /\ page = MaxPage
    /\ limit # DefaultLimit

-----------------------------------------------------------------------------
(* Claims about the parser (specification SpecParse) *)

FilterTokens(s, key) ==
    SelectSeq(Tokens(s), LAMBDA t : IsFilterToken(t, key))

\* C9: a filter field is set only if some whitespace-separated token has the
\* form prefix:value for that key, and every token that has that form for no
\* key is passed through literally into the free-text query.
C9_OnlyPrefixTokensAreFilters ==
    pc = "parsed" =>
        /\ \A key \in KeySet :
              parsed[key] # Undefined => FilterTokens(raw, key) # <<>>
        /\ \A i \in 1..Len(Tokens(raw)) :
              (\A key \in KeySet : ~IsFilterToken(Tokens(raw)[i], key))
                  => \E j \in 1..Len(Tokens(parsed.query)) :
                        Tokens(parsed.query)[j] = Tokens(raw)[i]

\* A string whose tokens are plain words (no prefix followed by a value
\* anywhere in them) or prefix:value tokens of one key with a value free of
\* quotes and of further prefixes.
WellFormedToken(t) ==
    \/ \A key \in KeySet : PrefixAt(t, key) = {}
    \/ /\ \E key \in KeySet :
             /\ PrefixAt(t, key) = {1}
             /\ \A other \in KeySet \ {key} : PrefixAt(t, other) = {}
       /\ \A i \in 1..Len(t) : t[i] \notin {"\"", "'"}

WellFormed(s) == \A i \in 1..Len(Tokens(s)) : WellFormedToken(Tokens(s)[i])

\* Is token i of ts the first prefix:value token of some key?
FirstOfKey(ts, i) ==
    \E key \in KeySet :
        /\ IsFilterToken(ts[i], key)
        /\ \A j \in 1..(i - 1) : ~IsFilterToken(ts[j], key)

RECURSIVE DropFirsts(_, _)
DropFirsts(ts, i) ==
    IF i > Len(ts) THEN <<>>
    ELSE (IF FirstOfKey(ts, i) THEN <<>> ELSE <<ts[i]>>) \o DropFirsts(ts, i + 1)

\* C10, as claimed: when a prefix has more than one token the last one wins
\* and no token of that prefix is left in the residual free-text query.
C10_LastMatchWins ==
    (pc = "parsed" /\ WellFormed(raw)) =>
        \A key \in KeySet :
            LET ts == FilterTokens(raw, key)
            IN  Len(ts) >= 2 =>
                    /\ parsed[key] = TokenValue(ts[Len(ts)], key)
                    /\ FilterTokens(parsed.query, key) = <<>>

\* C10, amended: when a prefix has more than one token the first one wins
\* and only that first token is stripped: the residual free-text query is
\* made of every token but the first one of each prefix, the later tokens of
\* the prefix among them.
C10_FirstMatchWins ==
    (pc = "parsed" /\ WellFormed(raw)) =>
        \A key \in KeySet :
            LET ts == FilterTokens(raw, key)
            IN  Len(ts) >= 2 =>
                    /\ parsed[key] = TokenValue(ts[1], key)
                    /\ Tokens(parsed.query) = DropFirsts(Tokens(raw), 1)

\* C10 witness: date:a date:b was parsed to date a with date:b left in the
\* query.
C10_Witness ==
    /\ pc = "parsed"
    /\ raw = Tok("date", <<"a">>) \o Sp \o Tok("date", <<"b">>)
    /\ parsed.date = <<"a">>
    /\ parsed.query = Tok("date", <<"b">>)

-----------------------------------------------------------------------------
(* Claims about quoting, scenarios, failures and the projection *)

\* Is index i of s the one place where a filter prefix occurs, the prefix
\* of this key at the start of a token?
OnlyPrefixAt(s, key, i) ==
    /\ LitAt(s, i, KeyChars(key) \o <<":">>, TRUE)
    /\ i = 1 \/ IsSpace(s[i - 1])
    /\ \A other \in KeySet : \A m \in 1..Len(s) :
          LitAt(s, m, KeyChars(other) \o <<":">>, TRUE)
              => (other = key /\ m = i)

\* The closing quote of a quoted value that opens at index j, 0 when no
\* quoted value opens there.
ClosingQuote(s, j) ==
    IF QuotedEnd(s, j, "\"") > 0 THEN QuotedEnd(s, j, "\"")
    ELSE QuotedEnd(s, j, "'")

\* C11: a title: or url: value written in quotes may contain spaces: the
\* token spans to the closing quote, the value is the text between the
\* quotes, and the free-text query is made of the text outside the token
\* only.
C11_QuotedValueSpansSpaces ==
    pc = "parsed" =>
        \A key \in {"title", "url"} : \A i \in 1..Len(raw) :
            (/\ OnlyPrefixAt(raw, key, i)
             /\ ClosingQuote(raw, i + Len(KeyChars(key)) + 1) > 0)
            => /\ parsed[key] =
                     SubSeq(raw, i + Len(KeyChars(key)) + 2,
                            ClosingQuote(raw, i + Len(KeyChars(key)) + 1) - 1)
               /\ Tokens(parsed.query) =
                     Tokens(SubSeq(raw, 1, i - 1)
                            \o SubSeq(raw,
                                 ClosingQuote(raw, i + Len(KeyChars(key)) + 1) + 1,
                                 Len(raw)))

\* No key has more than one prefix:value token.
NoDuplicates(s) == \A key \in KeySet : Len(FilterTokens(s, key)) <= 1

IsAnyFilterToken(t) == \E key \in KeySet : IsFilterToken(t, key)

\* C12: for a raw string made of free-text words and bare, non-duplicated
\* filter tokens, parse returns each filter value under its key, leaves
\* the other keys unset and returns the free-text words, in order and
\* without spaces around them, as query; the two scenario strings parse to
\* the fields the scenarios state.
C12_BareTokensParse ==
    (pc = "parsed" /\ WellFormed(raw) /\ NoDuplicates(raw)) =>
        /\ \A key \in KeySet :
              parsed[key] = IF FilterTokens(raw, key) # <<>>
                            THEN TokenValue(FilterTokens(raw, key)[1], key)
                            ELSE Undefined
        /\ Tokens(parsed.query) =
              SelectSeq(Tokens(raw), LAMBDA t : ~IsAnyFilterToken(t))
        /\ parsed.query = Trim(parsed.query)
        /\ raw = ScenarioA =>
              parsed = [query |-> SubSeq(ScenarioA, 1, 13),
                        date  |-> SubSeq(ScenarioA, 20, 29),
                        time  |-> Undefined,
                        title |-> Undefined,
                        url   |-> Undefined]
        /\ raw = ScenarioB =>
              parsed = [query |-> SubSeq(ScenarioB, 1, 19),
                        title |-> SubSeq(ScenarioB, 27, 31),
                        date  |-> SubSeq(ScenarioB, 38, 47),
                        time  |-> SubSeq(ScenarioB, 54, 64),
                        url   |-> Undefined]

\* C12 witness: scenario B was parsed, its three filters populated.
C12_Witness ==
    /\ pc = "parsed"
    /\ raw = ScenarioB
    /\ parsed.title = <<"f", "i", "n", "a", "l">>
    /\ parsed.date # Undefined
    /\ parsed.time # Undefined
    /\ Len(parsed.query) = 19

\* C24: the free-text query is the non-filter tokens of the raw string in
\* their order, joined by single spaces: nothing before the first, nothing
\* after the last, and one space where a filter token stood between two
\* words.
C24_FreeTextCollapsed ==
    (pc = "parsed" /\ WellFormed(raw) /\ NoDuplicates(raw)) =>
        parsed.query =
            Join(SelectSeq(Tokens(raw), LAMBDA t : ~IsAnyFilterToken(t)))

\* C25: the keyword of a filter token is matched whatever its case and the
\* value is stored character for character: the first token of a key gives
\* the field its value as written, DATE:x, Date:x and date:x all set date
\* to x, and the value Final is stored as Final.
C25_PrefixAnyCaseValueAsWritten ==
    (pc = "parsed" /\ WellFormed(raw)) =>
        /\ \A key \in KeySet :
              FilterTokens(raw, key) # <<>> =>
                  parsed[key] = TokenValue(FilterTokens(raw, key)[1], key)
        /\ (raw \in CaseInputs /\ ToLower(raw[1]) = "d") =>
              parsed.date = <<"x">> /\ parsed.query = <<>>
        /\ (raw \in CaseInputs /\ ToLower(raw[1]) = "t") =>
              parsed.title = <<"F", "i", "n", "a", "l">>

\* C25 witness: TITLE:Final was parsed, the keyword taken in capitals and
\* the value kept with its capital.
C25_Witness ==
    /\ pc = "parsed"
    /\ raw \in CaseInputs
    /\ raw[1] = "T"
    /\ parsed.title = <<"F", "i", "n", "a", "l">>
    /\ parsed.query = <<>>

\* A string value: a finite sequence, which undefined is not.
IsString(v) == v # Undefined /\ DOMAIN v = 1..Len(v)

\* A structured filter set: a query string, the four optional filter
\* fields, page and limit.
StructuredFilterSet(f) ==
    /\ DOMAIN f = {"query", "page", "limit"} \cup KeySet
    /\ IsString(f.query)
    /\ \A key \in KeySet : f[key] = Undefined \/ IsString(f[key])
    /\ f.page \in Nat
    /\ f.limit \in Nat

\* C13: no operation fails (no RegExp of addFilter or removeFilter throws,
\* whatever the key and the value) and parse always gives a structured
\* filter set; after addFilter or removeFilter either the edit is complete
\* (the string is the edited string, the page is 1 and the derived filters
\* are those of the edited string) or the string is as it was.
C13_NoFailureNoPartial ==
    /\ ~lastOp.thrown
    /\ StructuredFilterSet(searchFilters)
    /\ lastOp.op \in {"addFilter", "removeFilter"} =>
          \/ /\ searchQuery =
                   IF lastOp.op = "addFilter"
                   THEN addFilterUpdater(lastOp.preQuery, lastOp.key,
                                         lastOp.value)
                   ELSE removeFilterUpdater(lastOp.preQuery, lastOp.key,
                                            lastOp.value)
             /\ page = 1
             /\ searchFilters = searchFiltersMemo(searchQuery, 1, limit)
          \/ searchQuery = lastOp.preQuery

\* C13 witness: the filter time:( , whose value is a regular-expression
\* metacharacter, was removed and the key is unset.
C13_Witness ==
    /\ lastOp.op = "removeFilter"
    /\ lastOp.key = "time"
    /\ lastOp.value = <<"(">>
    /\ ~lastOp.thrown
    /\ searchFilters.time = Undefined
    /\ searchQuery = Tok("date", <<"\"">>) \o Sp \o Tok("url", <<"z">>)

\* The position of a key in the fixed order date, time, title, url.
KeyIndex(key) == CHOOSE i \in 1..Len(FilterKeys) : FilterKeys[i] = key

\* C14: the active-filter list has exactly one entry (key, value, display)
\* for each filter field among date, time, title, url that is set and not
\* empty, in that order, and none for any other field; it is determined by
\* the field values alone.
C14_ProjectionExact ==
    /\ \A i \in 1..Len(activeFilters) :
          /\ activeFilters[i].key \in KeySet
          /\ Truthy(searchFilters[activeFilters[i].key])
          /\ activeFilters[i].value = searchFilters[activeFilters[i].key]
          /\ activeFilters[i].display =
                KeyChars(activeFilters[i].key) \o <<":", " ">>
                    \o activeFilters[i].value
    /\ \A i, j \in 1..Len(activeFilters) :
          i < j => KeyIndex(activeFilters[i].key) < KeyIndex(activeFilters[j].key)
    /\ \A key \in KeySet :
          Truthy(searchFilters[key]) =>
              \E i \in 1..Len(activeFilters) : activeFilters[i].key = key

\* C14 witness: date is set to the empty string and has no entry, time and
\* url are set and have one entry each, in that order.
C14_Witness ==
    /\ searchFilters.date = <<>>
    /\ Len(activeFilters) = 2
    /\ activeFilters[1].key = "time"
    /\ activeFilters[2].key = "url"
    /\ searchFilters.query = <<>>

-----------------------------------------------------------------------------
(* Claims about the retrieval planner (specification SpecPlanner) *)

MinOf(a, b) == IF a < b THEN a ELSE b
MaxOf(a, b) == IF a > b THEN a ELSE b

\* The page a scheme that counts all N matches gives: the rows at the
\* offsets (k-1)*L+1 .. min(k*L, N) and hasMore when rows are left.
CountPage(sorted, k, L) ==
    [entries |-> [i \in 1..MinOf(L, MaxOf(0, Len(sorted) - (k - 1) * L)) |->
                     ClientEntry(sorted[(k - 1) * L + i])],
     hasMore |-> Len(sorted) > k * L]

\* The number of rows of the store that match the planned filters.
PlannedMatching ==
    IF planned.method = "getTimelineEntries"
    THEN TimelineMatching(store, planned.filters)
    ELSE Matching(store, planned.filters)

Matches == Cardinality(PlannedMatching)

\* C15: for N matching rows, page size L >= 1 and page k >= 1 the planner
\* returns min(L, max(0, N-(k-1)*L)) entries and hasMore iff N > k*L, the
\* same page as a scheme that counts the matches; with 13 matches and
\* L = 12, page 1 has 12 entries and hasMore, page 2 has 1 entry and no
\* hasMore.
C15_PaginationCounts ==
    (/\ planned.called
     /\ response.status = 200
     /\ planned.filters.page.n >= 1
     /\ planned.filters.limit.n >= 1)
    => /\ Len(response.entries) =
             MinOf(planned.filters.limit.n,
                   MaxOf(0, Matches - (planned.filters.page.n - 1)
                                        * planned.filters.limit.n))
       /\ response.hasMore =
             (Matches > planned.filters.page.n * planned.filters.limit.n)
       /\ \E sorted \in DescOrders(PlannedMatching) :
             /\ response.entries =
                   CountPage(sorted, planned.filters.page.n,
                             planned.filters.limit.n).entries
             /\ response.hasMore =
                   CountPage(sorted, planned.filters.page.n,
                             planned.filters.limit.n).hasMore
       /\ (Matches = 13 /\ planned.filters.limit.n = 12) =>
             /\ planned.filters.page.n = 1 =>
                   Len(response.entries) = 12 /\ response.hasMore
             /\ planned.filters.page.n = 2 =>
                   Len(response.entries) = 1 /\ ~response.hasMore

\* C15 witness: page 2 of a search with a title filter that all rows of the
\* large store match, at the default limit: the last row alone, no more.
C15_Witness ==
    /\ planned.called
    /\ planned.method = "searchEntries"
    /\ Truthy(planned.filters.title)
    /\ Matches = StoreSize
    /\ planned.filters.limit.n = DefaultLimit
    /\ planned.filters.page.n = 2
    /\ Len(response.entries) = StoreSize - DefaultLimit
    /\ ~response.hasMore

EntrySatisfies(e, q) ==
    /\ Truthy(q.query) =>
          Includes(Join(SelectSeq(<<e.title, e.appName, e.windowTitle, e.url,
                                    e.extractedText>>,
                                  LAMBDA v : v # Null)),
                   q.query, TRUE)
    /\ (Truthy(q.date) /\ DayOfText(q.date) > 0) =>
          DayOf(e.timestamp) = DayOfText(q.date)
    /\ (Truthy(q.time) /\ TimeWindow(q.time).valid) =>
          /\ ClockOf(e.timestamp) >= TimeWindow(q.time).from
          /\ ClockOf(e.timestamp) <= TimeWindow(q.time).to
    /\ Truthy(q.title) => e.title # Null /\ Includes(e.title, q.title, TRUE)
    /\ Truthy(q.url) => e.url # Null /\ Includes(e.url, q.url, TRUE)

\* C17: every entry a search returns passes every filter that is present;
\* with a url filter only entries whose URL contains the value, whatever
\* the case of the letters, are returned, and none without a URL; likewise
\* for title.
C17_FiltersConjunctive ==
    (request.route = "search" /\ response.status = 200) =>
        \A i \in 1..Len(response.entries) :
            EntrySatisfies(response.entries[i], request)

\* C20: the filters handed to the storage, by the search route and by the
\* timeline route, have a page and a limit that are numbers >= 1.
C20_PageAndLimitPositive ==
    planned.called =>
        /\ planned.filters.page.tag = "number"
        /\ planned.filters.limit.tag = "number"
        /\ planned.filters.page.n >= 1
        /\ planned.filters.limit.n >= 1

-----------------------------------------------------------------------------
(* Claims about the capture flag (specification SpecCapture) *)

\* The flag after the first k calls of seq, made one after the other from
\* a flag that starts true: true iff an even number of them are toggles.
FlagAfter(seq, k) ==
    Cardinality({i \in 1..k : calls[seq[i]].kind = "toggle"}) % 2 = 0

\* Every call of seq returned what it returns when the calls are made one
\* after the other in the order of seq.
ReturnsAsInSequence(seq) ==
    \A k \in 1..Len(seq) : calls[seq[k]].active = FlagAfter(seq, k)

\* C18: the flag starts true; a toggle flips it and returns the new value
\* and a status call returns it unchanged, so after the calls handled so
\* far the flag is true iff the number of toggles among them is even; two
\* toggles from the start return false, then true, and end at true.
C18_ToggleFlips ==
    /\ order = <<>> => captureActive
    /\ captureActive = FlagAfter(order, Len(order))
    /\ ReturnsAsInSequence(order)
    /\ (/\ Len(order) >= 2
        /\ calls[order[1]].kind = "toggle"
        /\ calls[order[2]].kind = "toggle")
       => /\ ~calls[order[1]].active
          /\ calls[order[2]].active
          /\ Len(order) = 2 => captureActive

\* C18 witness: two toggles were handled and answered: false, then true,
\* and the flag is true.
C18_Witness ==
    /\ order = <<1, 2>>
    /\ calls[1].kind = "toggle" /\ calls[1].pc = "done" /\ ~calls[1].active
    /\ calls[2].kind = "toggle" /\ calls[2].pc = "done" /\ calls[2].active
    /\ captureActive

\* The requests that were handled.
HandledCalls == {r \in 1..MaxRequests : calls[r].pc \in {"awaiting", "done"}}

Arrangements(S) ==
    {seq \in [1..Cardinality(S) -> S] :
        \A i, j \in 1..Cardinality(S) : i # j => seq[i] # seq[j]}

\* C19: whatever the interleaving of the requests in flight, no toggle is
\* lost (the flag is true iff the number of toggles handled is even) and
\* the values returned are those of the handled calls made one after the
\* other in some order.
C19_TogglesSerialized ==
    /\ captureActive =
          (Cardinality({r \in HandledCalls : calls[r].kind = "toggle"}) % 2 = 0)
    /\ \E seq \in Arrangements(HandledCalls) : ReturnsAsInSequence(seq)

\* C19 witness: two toggles and a status call are in flight together, all
\* handled and none answered yet.
C19_Witness ==
    /\ routes = "storage"
    /\ \E r1, r2, r3 \in 1..MaxRequests :
          /\ r1 # r2
          /\ calls[r1].kind = "toggle" /\ calls[r1].pc = "awaiting"
          /\ calls[r2].kind = "toggle" /\ calls[r2].pc = "awaiting"
          /\ calls[r3].kind = "status" /\ calls[r3].pc = "awaiting"
          /\ calls[r1].seen = calls[r2].seen

-----------------------------------------------------------------------------
(* Claims about validation and the store (specification SpecPlanner) *)

\* The request fails the schema of the search filters: page or limit is
\* given and is no number, or a parameter came as an array.
FailsSchemaCheck(q) ==
    \/ Truthy(q.page) /\ ParseInt(q.page).tag # "number"
    \/ Truthy(q.limit) /\ ParseInt(q.limit).tag # "number"
    \/ \E k \in {"query", "date", "time", "title", "url"} : q[k] = Repeated

\* C21: on the storage routes a search request whose filters fail the
\* schema check (a page or a limit that is not a number, a parameter of
\* the wrong shape) is answered with the bad-request status 400, which is
\* not the status 500 of a failed retrieval, and the storage is not called
\* for it; no other search request is answered 400.
C21_InvalidFiltersRejected ==
    (routes = "storage" /\ request.route = "search" /\ response # NoResponse)
    => IF FailsSchemaCheck(request)
       THEN /\ response.status = 400
            /\ response.status # Failure(500).status
            /\ response.entries = <<>>
            /\ ~planned.called
       ELSE response.status # 400 /\ planned.called

C21_Witness ==
    /\ routes = "storage"
    /\ store # <<>>
    /\ request.route = "search"
    /\ request.page = <<"x">>
    /\ request.date = Repeated
    /\ Truthy(request.title)
    /\ response.status = 400
    /\ ~planned.called

\* Filters that hold a free-text query and nothing else.
QueryOnly(text) ==
    [query |-> text, date |-> Undefined, time |-> Undefined,
     title |-> Undefined, url |-> Undefined,
     page |-> Num(1), limit |-> Num(DefaultLimit)]

\* C26: for every row of the store and every free-text query, the test of
\* the mock search (the query found in the lower-cased concatenation of
\* the fields that have a value) and the test of the storage search (the
\* query found in one of the five columns) give the same answer.
C26_QueryFormulationsAgree ==
    (request.route = "search" /\ Truthy(request.query)) =>
        \A i \in 1..Len(store) :
            MockMatches(ClientEntry(store[i]), QueryOnly(request.query))
                <=> RowMatches(store[i], QueryOnly(request.query))

\* The clock time lies in the window a time filter names: within a minute
\* of a single HH:MM on the clock face, from start to end of a range.
InWindow(clock, time) ==
    IF DashAt(time) # {}
    THEN /\ ClockOfText(RangeStart(time)) <= clock
         /\ clock <= ClockOfText(RangeEnd(time))
    ELSE \/ (clock - ClockOfText(time)) % MinutesPerDay <= 1
         \/ (ClockOfText(time) - clock) % MinutesPerDay <= 1

\* The time filter is an HH:MM or a range of two.
IsClockFilter(time) ==
    IF DashAt(time) # {}
    THEN ClockOfText(RangeStart(time)) >= 0 /\ ClockOfText(RangeEnd(time)) >= 0
    ELSE ClockOfText(time) >= 0

\* C27: on a server in UTC a search with a time filter keeps exactly the
\* rows that pass the other filters and whose clock time, the date left
\* aside, lies within 60000 ms of a single HH:MM (also 00:00, next to
\* midnight) or between start and end of a range, both ends included.
C27_TimeWindowExact ==
    (/\ planned.called
     /\ planned.method = "searchEntries"
     /\ tz = 0
     /\ Truthy(planned.filters.time)
     /\ IsClockFilter(planned.filters.time))
    => \A i \in 1..Len(store) :
          RowMatches(store[i], planned.filters)
              <=> /\ RowMatches(store[i],
                                [planned.filters EXCEPT !.time = Undefined])
                  /\ InWindow(ClockOf(store[i].timestamp),
                              planned.filters.time)

\* The calendar day of the moment in the server's local time
LocalToday == DayTexts[DayOf(Now + tz)]

\* The rows of the store of the day a YYYY-MM-DD text names.
RowsOfDay(text) ==
    {store[i] : i \in {j \in 1..Len(store) :
        DayOf(store[j].timestamp) = DayOfText(text)}}

\* C28: on the storage routes the currentDate of a response is the date of
\* the request when it has one and the current calendar day otherwise; on
\* the timeline route every entry returned is of the day currentDate
\* names, and a first page without hasMore holds all rows of that day.
C28_CurrentDateEchoesDay ==
    (routes = "storage" /\ response.status = 200) =>
        /\ response.currentDate =
              IF Truthy(request.date) THEN request.date ELSE LocalToday
        /\ request.route = "timeline" =>
              /\ \A i \in 1..Len(response.entries) :
                    DayOf(response.entries[i].timestamp)
                        = DayOfText(response.currentDate)
              /\ (planned.filters.page.n = 1 /\ ~response.hasMore) =>
                    Len(response.entries)
                        = Cardinality(RowsOfDay(response.currentDate))

\* C22: no request changes the rows of the store: whatever requests are
\* served, the store holds the rows it held before.
C22_StoreReadOnly == [][store' = store]_vars

-----------------------------------------------------------------------------
(* Claims about the page (specification SpecHome) *)

\* The text holds filter tokens and no free text.
FilterOnly(text) ==
    /\ ~Truthy(parseSearchQuery(text).query)
    /\ \E key \in KeySet : Truthy(parseSearchQuery(text)[key])

\* C23: once the search box holds only filter tokens, the request the page
\* issues goes to the filtered search and carries the filters parsed from
\* the box.
C23_FilterOnlySearches ==
    (lastOp.op = "setSearchQuery" /\ FilterOnly(searchQuery)) =>
        /\ QueryKey[1] = "/api/search"
        /\ \A key \in KeySet :
              QueryKey[2][key] = parseSearchQuery(searchQuery)[key]

\* C29: after Load More (offered when the last response had hasMore) the
\* request of the page goes to the data source that was shown, the search
\* when the search box held free text and the timeline otherwise, and asks
\* for the page after the one asked before.
C29_LoadMoreNextPage ==
    homeOp.op = "loadMore" =>
        /\ QueryKey[1] = IF Truthy(parseSearchQuery(homeOp.box).query)
                         THEN "/api/search" ELSE "/api/timeline"
        /\ QueryKey[1] =
              QueryKeyOf(homeOp.preSearch, homeOp.preDate, homeOp.prePage)[1]
        /\ KeyPage(QueryKey) =
              KeyPage(QueryKeyOf(homeOp.preSearch, homeOp.preDate,
                                 homeOp.prePage)) + 1

-----------------------------------------------------------------------------
(* Claims about reading page by page (specification SpecPaging) *)

\* The ids of the rows that match the filters of the pages read.
WalkMatching ==
    LET q == walk[1].request
        rows == IF q.route = "timeline"
                THEN TimelineMatching(store, TimelineFilters(q))
                ELSE Matching(store, SchemaParse(RawFilters(q)))
    IN  {r.id : r \in rows}

\* C30: the pages 1, 2, 3, ... read with the same filters and limit from
\* an unchanged store share no record, and once a page comes without
\* hasMore the pages together hold every matching record.
C30_PagesPartition ==
    /\ \A i, j \in 1..Len(walk) :
          i < j => \A a \in 1..Len(walk[i].ids) :
                      \A b \in 1..Len(walk[j].ids) :
                          walk[i].ids[a] # walk[j].ids[b]
    /\ (walk # <<>> /\ ~walk[Len(walk)].hasMore) =>
          WalkMatching =
              UNION {{walk[i].ids[a] : a \in 1..Len(walk[i].ids)} :
                     i \in 1..Len(walk)}

====
